---- MODULE Spec2Model ----
(***************************************************************************)
(* The analytical-fit tool of piezo-conditioner                            *)
(* (SPICE_Models/wav_to_exp_analytical.py, class PiezoAutoFitter) as a     *)
(* state machine: the object's fields, and one action per GUI handler      *)
(* (Load WAV, a slider edit, Export SPICE), and the multi-event tool       *)
(* (scripts/piezo_gui.py, classes SignalControls and PiezoGui): its signal *)
(* panels, the SPICE text it shows and saves, and the WAV to SPICE         *)
(* converter (tools/wav_to_spice.py, class WavToSpiceConverter): its       *)
(* options, the preview and the files it writes.  The tools are separate   *)
(* programs; each specification below runs one of them and leaves the      *)
(* others as constructed.                                                  *)
(*                                                                         *)
(* Numbers.  Every float of the program is an exact rational [n, d] in     *)
(* lowest terms with d > 0.  Arrays are sequences read with a 0-based      *)
(* index (At), as in the source.                                           *)
(***************************************************************************)
EXTENDS Integers, Sequences, FiniteSets, TLC

VARIABLES
    params,               \* self.params
    sample_rate,          \* self.sample_rate
    data,                 \* self.data: the window, <<>> together with has_data = FALSE for None
    has_data,             \* self.data is not None
    wav,                  \* the file last read by wavfile.read (self.filepath and its contents)
    mag,                  \* perform_auto_fit: mag of the last call
    sorted_peak_indices,  \* perform_auto_fit: sorted_peak_indices of the last call
    p0,                   \* perform_auto_fit: p0 of the last call (<<>>: not reached)
    fit,                  \* how the last call's try block ended: "none", "success", "failed"
    err,                  \* the exception the last handler let propagate, "none" if none
    op,                   \* the last handler that ran
    nops,                 \* handlers run so far
    line_fit,             \* update_plot: the function drawn by line_fit (<<>>: nothing drawn)
    content,              \* export_spice: the text written to piezo_auto_model.sub
    evaluated,            \* what the last direct call of dual_damped_sine gave
    signal_controls,      \* PiezoGui.signal_controls: the panels, each with its spin boxes
    spice_text,           \* PiezoGui.spice_text: the text shown
    saved,                \* the file save_spice_model wrote last (<<>>: none)
    now,                  \* datetime.now(), in seconds
    gui_err,              \* the exception the last PiezoGui handler let propagate
    gop,                  \* the last PiezoGui handler that ran
    gops,                 \* PiezoGui handlers run so far
    wav_file,             \* WavToSpiceConverter.wav_file: the file chosen (NoFile for "")
    max_points,           \* WavToSpiceConverter.max_points
    voltage_min,          \* WavToSpiceConverter.voltage_min
    voltage_max,          \* WavToSpiceConverter.voltage_max
    output_format,        \* WavToSpiceConverter.output_format: "external" or "inline"
    model_type,           \* WavToSpiceConverter.model_type: "subckt" or "direct"
    info_text,            \* WavToSpiceConverter.info_text (<<>>: empty)
    preview_text,         \* WavToSpiceConverter.preview_text (<<>>: empty)
    pwl_data,             \* what the last call of wav_to_pwl returned
    written,              \* the files the last save_output wrote: the SPICE file, audio_pwl.dat
    cerr,                 \* the exception the last converter handler caught or let propagate
    cop,                  \* the last converter handler that ran
    cops                  \* converter handlers run so far

fitterVars == <<params, sample_rate, data, has_data, wav, mag, sorted_peak_indices,
                p0, fit, err, op, nops, line_fit, content, evaluated>>

guiVars == <<signal_controls, spice_text, saved, now, gui_err, gop, gops>>

convVars == <<wav_file, max_points, voltage_min, voltage_max, output_format,
              model_type, info_text, preview_text, pwl_data, written, cerr, cop, cops>>

vars == <<params, sample_rate, data, has_data, wav, mag, sorted_peak_indices,
          p0, fit, err, op, nops, line_fit, content, evaluated,
          signal_controls, spice_text, saved, now, gui_err, gop, gops,
          wav_file, max_points, voltage_min, voltage_max, output_format,
          model_type, info_text, preview_text, pwl_data, written, cerr, cop, cops>>

-----------------------------------------------------------------------------
(* Bounds of the model *)

\* Handler invocations in one run of the tool.
MaxOps == 2

-----------------------------------------------------------------------------
(* Exact rationals *)

RECURSIVE GCD(_, _)
GCD(a, b) == IF b = 0 THEN a ELSE GCD(b, a % b)

Abs(x) == IF x < 0 THEN -x ELSE x

\* n/d in lowest terms, d # 0.
R(n, d) ==
    LET g == GCD(Abs(n), Abs(d))
        s == IF d < 0 THEN -1 ELSE 1
    IN  [n |-> s * (n \div g), d |-> s * (d \div g)]

RInt(k) == [n |-> k, d |-> 1]
RMul(a, b) == R(a.n * b.n, a.d * b.d)
RAdd(a, b) == R(a.n * b.d + b.n * a.d, a.d * b.d)
RDivInt(a, k) == R(a.n, a.d * k)
RAbs(a) == [n |-> Abs(a.n), d |-> a.d]
RLe(a, b) == a.n * b.d <= b.n * a.d
RLt(a, b) == a.n * b.d < b.n * a.d

\* 0-based read of an array.
At(s, i) == s[i + 1]

Max2(a, b) == IF a >= b THEN a ELSE b
Min2(a, b) == IF a <= b THEN a ELSE b

-----------------------------------------------------------------------------
(* load_wav: normalisation, mono mix, trimming *)

\* A WAV file as wavfile.read returns it: [sample_rate, dtype, channels, frames],
\* frames a sequence of frames, each a sequence of `channels` integer samples.
\* An int32 sample is held by its upper 16 bits (the sample is 65536 times the
\* number held), which keeps 2147483648 out of the arithmetic.

Int16FullScale == 32768
Int32FullScaleHi == 32768

\* data = data / 32768.0 for int16, data / 2147483648.0 for int32; any other
\* dtype (uint8 of 8-bit files, float32) is left as read.
Normalize(dtype, v) ==
    CASE dtype = "int16" -> R(v, Int16FullScale)
      [] dtype = "int32" -> R(v, Int32FullScaleHi)
      [] OTHER -> RInt(v)

RECURSIVE RSum(_)
RSum(s) == IF s = <<>> THEN RInt(0) ELSE RAdd(Head(s), RSum(Tail(s)))

\* if len(data.shape) > 1: data = data.mean(axis=1)
MixToMono(channels, frame) ==
    IF channels > 1 THEN RDivInt(RSum(frame), Len(frame)) ELSE frame[1]

\* The float array load_wav trims: normalised, then mixed to mono.
Decoded(w) ==
    LET x == [i \in 1..Len(w.frames) |->
                MixToMono(w.channels,
                    [c \in 1..Len(w.frames[i]) |-> Normalize(w.dtype, w.frames[i][c])])]
    IN  SubSeq(x, 1, Len(x))

\* np.max(np.abs(x)) of a non-empty array
MaxAbs(x) ==
    LET vals == {RAbs(x[i]) : i \in 1..Len(x)}
    IN  CHOOSE m \in vals : \A v \in vals : RLe(v, m)

\* np.argmax(np.abs(data)) of a non-empty array: the first index of the maximum.
ArgMaxAbs(x) ==
    LET m == MaxAbs(x)
        hits == {i \in 0..(Len(x) - 1) : RAbs(At(x, i)) = m}
    IN  CHOOSE i \in hits : \A j \in hits : i <= j

\* Mutant: window_len = int(0.1 * sr), the 100 ms of the comment.
WindowLen100ms(sr) == (10 * sr) \div 100

\* int(0.002 * sr) and int(0.15 * sr).  The float products truncate to the exact
\* floors for every sample rate up to 400000 Hz.
PreRoll(sr) == (2 * sr) \div 1000
WindowLen(sr) == (15 * sr) \div 100

\* start_idx = max(0, peak_idx - int(0.002 * self.sample_rate))
StartIdx(peak_idx, sr) == Max2(0, peak_idx - PreRoll(sr))

\* end_idx = min(len(data), start_idx + window_len)
EndIdx(L, start_idx, sr) == Min2(L, start_idx + WindowLen(sr))

\* data[start_idx:end_idx]
Window(x, sr) ==
    LET start_idx == StartIdx(ArgMaxAbs(x), sr)
    IN  SubSeq(x, start_idx + 1, EndIdx(Len(x), start_idx, sr))

-----------------------------------------------------------------------------
(* perform_auto_fit: spectrum, peaks, initial guess *)

\* The magnitude spectrum np.abs(np.fft.fft(data)[:N//2]) is not computed here:
\* it is an input of the call, any sequence of N div 2 naturals (magnitudes in a
\* fixed unit) that is all zero when the window is all zero (the transform is
\* linear).

IsZero(x) == \A i \in 1..Len(x) : x[i].n = 0

\* freqs[k] = xf[k] = k * sample_rate / N for k < N // 2
Freq(k, sr, N) == R(k * sr, N)

\* np.max of a non-empty array of naturals
SeqMax(s) ==
    LET vals == {s[i] : i \in 1..Len(s)}
    IN  CHOOSE m \in vals : \A v \in vals : v <= m

\* The elements of a finite set of integers, ascending.
RECURSIVE Ascending(_)
Ascending(S) ==
    IF S = {} THEN <<>>
    ELSE LET lo == CHOOSE a \in S : \A b \in S : a <= b
         IN  <<lo>> \o Ascending(S \ {lo})

\* scipy.signal._peak_finding_utils._local_maxima_1d: the midpoints of all
\* local maxima, flat ones included; the first and last sample are never one.
\* The scan stops at every sample i in 1..len-2 that is higher than the one
\* before it (a flat top's later samples are not), looks ahead to the next
\* sample i_ahead that differs (or the last sample), and has a maximum
\* with midpoint (i + i_ahead - 1) // 2 when that sample is lower.
RECURSIVE LookAhead(_, _, _)
LookAhead(x, i_ahead, v) ==
    IF i_ahead < Len(x) - 1 /\ At(x, i_ahead) = v
    THEN LookAhead(x, i_ahead + 1, v)
    ELSE i_ahead

LocalMaxima(x) ==
    LET rises == {i \in 1..(Len(x) - 2) : At(x, i - 1) < At(x, i)}
        tops == {i \in rises : At(x, LookAhead(x, i + 1, At(x, i))) < At(x, i)}
    IN  Ascending({(i + LookAhead(x, i + 1, At(x, i)) - 1) \div 2 : i \in tops})

\* Mutant: find_peaks without height.
AnyHeight(x, k) == TRUE

\* height = np.max(mag) * 0.1: a peak is kept when its height is at least the
\* required height (find_peaks keeps pmin <= height).
HeightDen == 10
HeightOk(x, k) == HeightDen * At(x, k) >= SeqMax(x)

SelectSeq2(s, keep) ==
    LET F[i \in 0..Len(s)] ==
            IF i = 0 THEN <<>>
            ELSE IF keep[i] THEN Append(F[i - 1], s[i]) ELSE F[i - 1]
    IN  F[Len(s)]

\* np.argsort(v): a permutation that sorts v ascending.  The default sort is not
\* stable, so equal values come in any order.
ArgSorts(v) ==
    {p \in [1..Len(v) -> 1..Len(v)] :
        /\ \A i, j \in 1..Len(v) : i # j => p[i] # p[j]
        /\ \A i \in 1..(Len(v) - 1) : v[p[i]] <= v[p[i + 1]]}

Reverse(s) == [i \in 1..Len(s) |-> s[Len(s) + 1 - i]]

\* distance = 50 bins
PeakDistance == 50

\* scipy.signal._peak_finding_utils._select_by_peak_distance: from the highest
\* priority down, a peak still kept removes every peak closer than distance.
RECURSIVE SelectByPeakDistance(_, _, _, _)
SelectByPeakDistance(peaks, priority_to_position, i, keep) ==
    IF i = 0 THEN keep
    ELSE LET j == priority_to_position[i]
         IN  IF ~keep[j]
             THEN SelectByPeakDistance(peaks, priority_to_position, i - 1, keep)
             ELSE SelectByPeakDistance(peaks, priority_to_position, i - 1,
                     [k \in DOMAIN keep |->
                         IF k # j /\ Abs(peaks[k] - peaks[j]) < PeakDistance
                         THEN FALSE ELSE keep[k]])

Heights(x, peaks) == [i \in 1..Len(peaks) |-> At(x, peaks[i])]

\* find_peaks(mag, height=np.max(mag)*0.1, distance=50): every result the call
\* can give, one per order of equal heights.
FindPeaks(x) ==
    LET all == LocalMaxima(x)
        high == SelectSeq2(all, [i \in 1..Len(all) |-> HeightOk(x, all[i])])
    IN  {SelectSeq2(high,
            SelectByPeakDistance(high, pos, Len(high), [i \in 1..Len(high) |-> TRUE])) :
         pos \in ArgSorts(Heights(x, high))}

\* Mutant: the [::-1] forgotten, the peaks come lowest first.
SortAscending(x, peaks) ==
    {[i \in 1..Len(peaks) |-> peaks[ord[i]]] : ord \in ArgSorts(Heights(x, peaks))}

\* peaks[np.argsort(mag[peaks])[::-1]]
SortByHeight(x, peaks) ==
    {[i \in 1..Len(peaks) |-> peaks[ord[i]]] :
        ord \in {Reverse(a) : a \in ArgSorts(Heights(x, peaks))}}


\* guess_f1: the frequency of the first sorted peak, 100.0 without peaks.
GuessF1(sorted, sr, N) ==
    IF Len(sorted) > 0 THEN Freq(sorted[1], sr, N) ELSE RInt(100)

\* Mutant: the fallback is guess_f1 itself.
GuessF2NotDoubled(sorted, sr, N) ==
    IF Len(sorted) > 1 THEN Freq(sorted[2], sr, N) ELSE GuessF1(sorted, sr, N)

\* guess_f2: guess_f1 * 2, replaced by the second sorted peak when there is one.
GuessF2(sorted, sr, N) ==
    IF Len(sorted) > 1 THEN Freq(sorted[2], sr, N)
    ELSE RMul(GuessF1(sorted, sr, N), RInt(2))

\* Mutant: np.max(self.data), the abs forgotten.
MaxSigned(x) ==
    LET vals == {x[i] : i \in 1..Len(x)}
    IN  CHOOSE m \in vals : \A v \in vals : RLe(v, m)

\* max_amp = np.max(np.abs(self.data)), of a non-empty window
MaxAmp(x) == MaxAbs(x)

\* p0 = [guess_a1, guess_d1, guess_f1, 0.0, guess_a2, guess_d2, guess_f2, 0.0]
InitialGuess(max_amp, sorted, sr, N) ==
    << RMul(max_amp, R(7, 10)), RInt(20), GuessF1(sorted, sr, N), RInt(0),
       RMul(max_amp, R(3, 10)), RInt(50), GuessF2(sorted, sr, N), RInt(0) >>

-----------------------------------------------------------------------------
(* perform_auto_fit: the bounded least-squares call *)

\* np.pi, cut to four decimals.
Pi == R(31415, 10000)
RNeg(a) == [n |-> -a.n, d |-> a.d]
Between(v, lo, hi) == RLe(lo, v) /\ RLe(v, hi)

\* lower_bounds = [-inf, 0, 1, -pi, -inf, 0, 1, -pi]
\* upper_bounds = [ inf, 1000, 20000, pi, inf, 1000, 20000, pi]
InBounds(x) ==
    \A c \in {0, 4} :
        /\ Between(x[c + 2], RInt(0), RInt(1000))
        /\ Between(x[c + 3], RInt(1), RInt(20000))
        /\ Between(x[c + 4], RNeg(Pi), Pi)

\* Parameter vectors the optimizer may stop at: the start itself, one on the
\* bounds, one outside them (which only an unbounded search could return).
PoptOnBounds ==
    << RInt(-1), RInt(0), RInt(1), RNeg(Pi), R(1, 2), RInt(1000), RInt(20000), Pi >>
PoptOutside ==
    << RInt(1), RInt(-5), RInt(25000), RInt(4), RInt(1), RInt(2000), R(1, 2), RInt(-4) >>
FitCandidates(start) == {start, PoptOnBounds, PoptOutside}

\* Mutant: the bounds are not passed.
SearchedUnbounded(start) == FitCandidates(start)

\* bounds=(lower_bounds, upper_bounds): the search stays inside them.
Searched(start) == {c \in FitCandidates(start) : InBounds(c)}

\* curve_fit(self.dual_damped_sine, self.time, self.data, p0=p0, bounds=..., maxfev=20000)
\* from p0 = start, zero telling whether self.data is all zero: every way the
\* call can end.  An infeasible start is rejected (ValueError); a
\* start whose residual is identically zero (an all-zero window, for which both
\* amplitude guesses are 0) has a zero gradient and is returned at once; any
\* other fit either returns a vector inside the bounds or gives up (RuntimeError,
\* the evaluation budget is spent).
CurveFit(start, zero) ==
    IF ~InBounds(start) THEN {[status |-> "ValueError", popt |-> <<>>]}
    ELSE IF zero THEN {[status |-> "ok", popt |-> start]}
    ELSE {[status |-> "RuntimeError", popt |-> <<>>]}
         \cup {[status |-> "ok", popt |-> c] : c \in Searched(start)}

\* Mutant: except RuntimeError, which lets a rejected start through.
ExceptRuntimeErrorOnly(status) == status = "RuntimeError"

\* except Exception as e: every failure of the call is caught.
ExceptException(status) == status \in {"ValueError", "RuntimeError"}

\* Mutant: the fitted values replace the whole dict, the scale back at 1.0.
StoreFitResetScale(p, popt) ==
    [amp1 |-> popt[1], decay1 |-> popt[2], freq1 |-> popt[3], phase1 |-> popt[4],
     amp2 |-> popt[5], decay2 |-> popt[6], freq2 |-> popt[7], phase2 |-> popt[8],
     scale |-> RInt(1)]

\* self.params['amp1'], ... = popt[0:4]; self.params['amp2'], ... = popt[4:8]
StoreFit(p, popt) ==
    [p EXCEPT !.amp1 = popt[1], !.decay1 = popt[2], !.freq1 = popt[3], !.phase1 = popt[4],
              !.amp2 = popt[5], !.decay2 = popt[6], !.freq2 = popt[7], !.phase2 = popt[8]]

\* self.params['freq1'] = guess_f1; self.params['freq2'] = guess_f2
UseGuesses(p, start) == [p EXCEPT !.freq1 = start[3], !.freq2 = start[7]]

\* The try statement: params after it, how it ended, and what it lets through.
TryFit(p, start, res) ==
    IF res.status = "ok"
    THEN [params |-> StoreFit(p, res.popt), fit |-> "success", err |-> "none"]
    ELSE IF ExceptException(res.status)
         THEN [params |-> UseGuesses(p, start), fit |-> "failed", err |-> "none"]
         ELSE [params |-> p, fit |-> "failed", err |-> res.status]

-----------------------------------------------------------------------------
(* dual_damped_sine, update_plot and the text of export_spice *)

\* A function of t is the sequence of its terms; a term
\* amp * exp(-decay * t) * sin(twopi * freq * t + phase) is the record of its
\* five numbers.  twopi is held in millionths (micro) and the millionths of a
\* millionth beyond them (pico).
NpTwoPiMicro == 6283185
NpTwoPiPico == 307179
SpiceTwoPiMicro == 6283185

\* 2 * np.pi
NpTwoPi == [micro |-> NpTwoPiMicro, pico |-> NpTwoPiPico]

Term(a, d, w, f, ph) == [amp |-> a, decay |-> d, twopi |-> w, freq |-> f, phase |-> ph]

\* c1 + c2 of dual_damped_sine: the function the optimizer fits to the window.
dual_damped_sine(a1, d1, f1, p1, a2, d2, f2, p2) ==
    << Term(a1, d1, NpTwoPi, f1, p1), Term(a2, d2, NpTwoPi, f2, p2) >>

\* Mutant: the scale is left out of the red line.
UpdatePlotUnscaled(p) ==
    << Term(p.amp1, p.decay1, NpTwoPi, p.freq1, p.phase1),
       Term(p.amp2, p.decay2, NpTwoPi, p.freq2, p.phase2) >>

\* total_signal = (c1 + c2) * p['scale'] of update_plot, c1 and c2 written out
\* again from self.params.
update_plot(p) ==
    << Term(RMul(p.amp1, p.scale), p.decay1, NpTwoPi, p.freq1, p.phase1),
       Term(RMul(p.amp2, p.scale), p.decay2, NpTwoPi, p.freq2, p.phase2) >>

\* A text is a sequence of lines, a line a sequence of pieces: a piece is
\* either fixed text or a decimal literal, the integer num written with its
\* last `digits` digits after the point.
Text(str) == [text |-> str, num |-> 0, digits |-> -1]
Literal(v, k) == [text |-> "", num |-> v, digits |-> k]
IsLiteral(piece) == piece.digits >= 0

RECURSIVE Pow10(_)
Pow10(k) == IF k = 0 THEN 1 ELSE 10 * Pow10(k - 1)

\* n / d (d > 0) rounded to the nearest integer, a half to the even one.
RoundHalfEven(n, d) ==
    LET q == n \div d
        r == n - q * d
    IN  IF 2 * r < d THEN q
        ELSE IF 2 * r > d THEN q + 1
        ELSE IF q % 2 = 0 THEN q ELSE q + 1

\* f"{x:.kf}"
FormatF(x, k) == Literal(RoundHalfEven(x.n * Pow10(k), x.d), k)

\* The number a literal is read as.
Value(piece) == R(piece.num, Pow10(piece.digits))

\* Mutant: the 6.28 of the source's comment.
ComponentStringShortPi(a_final, d, f, ph) ==
    << FormatF(a_final, 5), Text(" * exp(-"), FormatF(d, 5), Text(" * time) * sin("),
       Literal(628, 2), Text(" * "), FormatF(f, 5), Text(" * time + "),
       FormatF(ph, 5), Text(")") >>

\* comp1, comp2 of export_spice
ComponentString(a_final, d, f, ph) ==
    << FormatF(a_final, 5), Text(" * exp(-"), FormatF(d, 5), Text(" * time) * sin("),
       Literal(SpiceTwoPiMicro, 6), Text(" * "), FormatF(f, 5), Text(" * time + "),
       FormatF(ph, 5), Text(")") >>

model_name == "CUSTOM_PIEZO"

\* Mutant: the amplitude is written without the scale.
AFinalUnscaled(p, amp) == amp

\* a1_final = p['amp1'] * p['scale'], a2_final = p['amp2'] * p['scale']
a_final(p, amp) == RMul(amp, p.scale)

\* content of export_spice, split at its newlines.  A comment line starts with
\* the piece "*", the blank after "+ {comp1}" and "+ +" is a piece of its own.
Content(p) ==
    LET a1_final == a_final(p, p.amp1)
        a2_final == a_final(p, p.amp2)
        comp1 == ComponentString(a1_final, p.decay1, p.freq1, p.phase1)
        comp2 == ComponentString(a2_final, p.decay2, p.freq2, p.phase2)
    IN  << <<>>,
           << Text(".SUBCKT "), Text(model_name), Text(" out gnd") >>,
           <<>>,
           << Text("*"), Text(" Generated Automated Model") >>,
           << Text("*"), Text(" Dual-Component Damped Sine Approximation") >>,
           << Text("*"), Text(" Component 1: F="), FormatF(p.freq1, 1),
              Text("Hz, Decay="), FormatF(p.decay1, 1) >>,
           << Text("*"), Text(" Component 2: F="), FormatF(p.freq2, 1),
              Text("Hz, Decay="), FormatF(p.decay2, 1) >>,
           <<>>,
           << Text("E1 out gnd VALUE={") >>,
           << Text("+ ") >> \o comp1 \o << Text(" ") >>,
           << Text("+ +"), Text(" ") >>,
           << Text("+ ") >> \o comp2,
           << Text("+ }") >>,
           <<>>,
           << Text(".ENDS "), Text(model_name) >>,
           <<>> >>

-----------------------------------------------------------------------------
(* piezo_gui.py: SignalPresets, SignalControls, PiezoGui *)

\* A spin box holds its value in hundredths (QDoubleSpinBox shows 2 decimals);
\* a value given to it is in thousandths.

\* Handler invocations in one run of the multi-event tool, and the seconds its
\* clock can advance.
MaxGuiOps == 2
MaxNow == 1

ControlKeys == <<"amplitude", "delay", "frequency", "damping">>

PresetNames == {"Low Frequency", "High Frequency", "Long Decay", "Quick Decay"}

\* SignalPresets.PRESETS
PRESETS(name) ==
    CASE name = "Low Frequency" ->
           [amplitude |-> 5000, delay |-> 0, frequency |-> 100000, damping |-> 100]
      [] name = "High Frequency" ->
           [amplitude |-> 2000, delay |-> 0, frequency |-> 5000000, damping |-> 50]
      [] name = "Long Decay" ->
           [amplitude |-> 10000, delay |-> 0, frequency |-> 1000000, damping |-> 10]
      [] name = "Quick Decay" ->
           [amplitude |-> 8000, delay |-> 0, frequency |-> 2000000, damping |-> 500]

\* spin.setRange(min_val, max_val) of the four controls, in hundredths
SpinMin(key) ==
    CASE key = "amplitude" -> 0
      [] key = "delay" -> 0
      [] key = "frequency" -> 100
      [] key = "damping" -> 1

SpinMax(key) ==
    CASE key = "amplitude" -> 25000
      [] key = "delay" -> 100000
      [] key = "frequency" -> 1000000
      [] key = "damping" -> 99

\* Mutant: a spin box without a range.
SetValueUnbounded(key, milli) == RoundHalfEven(milli, 10)

\* QDoubleSpinBox.setValue: rounded to 2 decimals, then forced into the range.
setValue(key, milli) ==
    Max2(SpinMin(key), Min2(SpinMax(key), RoundHalfEven(milli, 10)))

\* SignalControls.__init__(parent, index)
SignalControls(index) ==
    [label |-> index + 1, visible |-> TRUE, preset |-> "Custom",
     amplitude |-> setValue("amplitude", index * 5000),
     delay |-> setValue("delay", index * 30000),
     frequency |-> setValue("frequency", 1000000),
     damping |-> setValue("damping", 100)]

IsVisible(control) == control.visible

\* Every panel taken, hidden or not.
AllControls(controls) == controls

\* The panels the loops go through: "if not control.is_visible(): continue".
VisibleControls(controls) == SelectSeq(controls, IsVisible)

\* f"{alpha:.8f}", f"{omega:.8f}", f"{phase_factor:.8f}": the 8 decimals of a
\* number computed from frequency and damping with np.pi and np.sqrt, named by
\* what it was computed from.
Computed(kind, control) ==
    [text |-> "", num |-> 0, digits |-> 8, kind |-> kind,
     frequency |-> control.frequency, damping |-> control.damping]

\* One "+ amp * exp(...) * sin(...) * (... > 0)" line of generate_spice_model;
\* the "+" that joins the next signal is put at its end.
EventLine(control, last) ==
    LET delay == FormatF(R(control.delay, 100000), 6)
    IN  << Text("+ "), FormatF(R(control.amplitude, 100), 1), Text(" * exp(-"),
           Computed("alpha", control), Text(" * (time - "), delay, Text(")) * sin("),
           Computed("omega", control), Text(" * "), Computed("phase_factor", control),
           Text(" * (time - "), delay, Text(")) * ((time - "), delay, Text(") > 0)") >>
        \o (IF last THEN <<>> ELSE << Text("+") >>)

\* generate_spice_model at time t (datetime.now() cut to the second)
generate_spice_model(controls, t) ==
    LET vis == VisibleControls(controls)
    IN  << << Text("*"), Text(" Multiple Piezoelectric Sensor Response Library") >>,
           << Text("*"), Text(" Generated: "), Literal(t, 0) >>,
           << Text("*"), Text(" Dynamic multi-signal configuration") >>,
           <<>>,
           << Text(".SUBCKT MULTI_PIEZO out gnd") >>,
           <<>>,
           << Text("*"), Text(" Combined response of multiple events") >>,
           << Text("E1 out gnd VALUE={") >> >>
        \o [i \in 1..Len(vis) |-> EventLine(vis[i], i = Len(vis))]
        \o << << Text("+ }") >>, <<>>, << Text(".ENDS MULTI_PIEZO") >> >>

\* calculate_signal(control, t) as a function of t: 0 where the mask t >= delay
\* is off, amplitude * exp(-alpha * (t - delay)) * sin(omega * phase_factor *
\* (t - delay)) where it is on, alpha, omega and phase_factor computed from
\* frequency and damping.
calculate_signal(control) ==
    [amplitude |-> R(control.amplitude, 100), delay |-> R(control.delay, 100000),
     frequency |-> control.frequency, damping |-> control.damping, gate |-> ">="]

\* PiezoGui.update_plot: max() over the visible panels raises when there is
\* none, before the text is set.
PiezoGui_update_plot(controls, t, text) ==
    IF VisibleControls(controls) = <<>>
    THEN [err |-> "ValueError", text |-> text]
    ELSE [err |-> "none", text |-> generate_spice_model(controls, t)]

\* PiezoGui.__init__: two panels, added by add_signal.
InitControls == << SignalControls(0), SignalControls(1) >>

GuiInit ==
    /\ signal_controls = InitControls
    /\ spice_text = generate_spice_model(InitControls, 0)
    /\ saved = <<>>
    /\ now = 0
    /\ gui_err = "none"
    /\ gop = "init"
    /\ gops = 0

-----------------------------------------------------------------------------
(* tools/wav_to_spice.py: the WAV to SPICE converter *)

\* Handler invocations in one run of the converter.
MaxConvOps == 4

\* A WAV file as the wave module reads it: its name, header and frames, each
\* frame one stored value per channel (an unsigned byte when sample_width is 1,
\* a signed integer otherwise).
WavFile(name, channels, sample_width, framerate, frames) ==
    [name |-> name, channels |-> channels, sample_width |-> sample_width,
     framerate |-> framerate, frames |-> frames]

\* self.wav_file holding ""
NoFile == WavFile("", 0, 0, 0, <<>>)

\* frames = wav.readframes(n_frames): the stored values of all channels,
\* interleaved.
RECURSIVE Interleaved(_)
Interleaved(frames) ==
    IF frames = <<>> THEN <<>> ELSE Head(frames) \o Interleaved(Tail(frames))

\* Every stored value taken as it is.
UnpackUnsigned(sampwidth, stored) == stored

\* struct.unpack / int.from_bytes: 8-bit values are unsigned and moved by 128,
\* 16- and 24-bit values are signed.
Unpack(sampwidth, stored) == IF sampwidth = 1 THEN stored - 128 ELSE stored

\* max_val of each supported sample width
MaxVal(sampwidth) ==
    CASE sampwidth = 1 -> 128
      [] sampwidth = 2 -> 32768
      [] sampwidth = 3 -> 8388608

\* samples[::n]
Stride(samples, n) ==
    [k \in 1..((Len(samples) + n - 1) \div n) |-> samples[(k - 1) * n + 1]]

\* samples[::2] for two channels, samples[::n_channels] for more, samples for one
FirstChannel(samples, n_channels) ==
    IF n_channels >= 2 THEN Stride(samples, n_channels) ELSE samples

\* step = max(1, len(samples) // max_pts), max_pts # 0 (// floors: a negative
\* max_pts gives a quotient <= 0)
Step(len, max_pts) == IF max_pts < 0 THEN 1 ELSE Max2(1, len \div max_pts)

\* The pair appended for samples[i]: time = i / framerate, voltage = v_min +
\* ((samples[i] / max_val + 1) / 2) * (v_max - v_min)
PwlPoint(i, sample, max_val, framerate, v_min, v_max) ==
    LET normalized == RDivInt(RAdd(R(sample, max_val), RInt(1)), 2)
        v_range == RAdd(v_max, RNeg(v_min))
    IN  [time |-> R(i, framerate), voltage |-> RAdd(v_min, RMul(normalized, v_range))]

\* wav_to_pwl(wav_file) with the options as they are: the exception it raises
\* or the list it returns.
wav_to_pwl(file, max_pts, v_min, v_max) ==
    IF file = NoFile THEN [err |-> "FileNotFoundError", data |-> <<>>]
    ELSE IF file.sample_width \notin {1, 2, 3} THEN [err |-> "ValueError", data |-> <<>>]
    ELSE IF max_pts = 0 THEN [err |-> "ZeroDivisionError", data |-> <<>>]
    ELSE LET stored == FirstChannel(Interleaved(file.frames), file.channels)
             samples == [k \in 1..Len(stored) |-> Unpack(file.sample_width, stored[k])]
             step == Step(Len(samples), max_pts)
         IN  [err |-> "none",
              data |-> [k \in 1..((Len(samples) + step - 1) \div step) |->
                          PwlPoint((k - 1) * step, samples[(k - 1) * step + 1],
                                   MaxVal(file.sample_width), file.framerate,
                                   v_min, v_max)]]

\* min(self.wav_info['n_frames'], self.max_points.get())
EstimatedPoints(file, max_pts) == Min2(Len(file.frames), max_pts)

\* The info display written by load_wav_info.
Info(file, max_pts) ==
    << << Text("Channels: "), Literal(file.channels, 0), Text(" | Sample Rate: "),
          Literal(file.framerate, 0), Text(" Hz | Bit Depth: "),
          Literal(file.sample_width * 8, 0), Text("-bit") >>,
       << Text("Duration: "), FormatF(R(Len(file.frames), file.framerate), 2),
          Text(" seconds | Total Samples: "), Literal(Len(file.frames), 0) >>,
       << Text("Estimated PWL Points: "), Literal(EstimatedPoints(file, max_pts), 0) >> >>

\* The e with 10^e <= n / d < 10^(e + 1), for n, d > 0.
RECURSIVE Exp10(_, _)
Exp10(n, d) ==
    IF n >= 10 * d THEN Exp10(n, 10 * d) + 1
    ELSE IF n < d THEN Exp10(10 * n, d) - 1
    ELSE 0

\* << n * 10^k \div d, the remainder >>, by long division.
RECURSIVE LongDiv(_, _, _)
LongDiv(n, d, k) ==
    IF k = 0 THEN << n \div d, n % d >>
    ELSE LET p == LongDiv(n, d, k - 1)
         IN  << 10 * p[1] + (10 * p[2]) \div d, (10 * p[2]) % d >>

\* A number written as mantissa and exponent, num the k + 1 digits of the
\* mantissa: 1.250000e-01 is [num |-> 1250000, digits |-> 6, exp |-> -1].
Sci(num, k, e) == [text |-> "", num |-> num, digits |-> k, exp |-> e]

\* f"{x:.ke}"
FormatE(x, k) ==
    IF x.n = 0 THEN Sci(0, k, 0)
    ELSE LET n == Abs(x.n)
             e == Exp10(n, x.d)
             sn == IF e < 0 THEN n * Pow10(-e) ELSE n
             sd == IF e > 0 THEN x.d * Pow10(e) ELSE x.d
             p == LongDiv(sn, sd, k)
             m == IF 2 * p[2] < sd THEN p[1]
                  ELSE IF 2 * p[2] > sd THEN p[1] + 1
                  ELSE IF p[1] % 2 = 0 THEN p[1] ELSE p[1] + 1
             sign == IF x.n < 0 THEN -1 ELSE 1
         IN  IF m = Pow10(k + 1) THEN Sci(sign * Pow10(k), k, e + 1)
             ELSE Sci(sign * m, k, e)

\* f"{x}" of a float: the shortest digits that read back as x.
Repr(x) == [text |-> "", num |-> x.n, digits |-> -1, den |-> x.d]

\* The defaults of source_name, node_pos, node_neg and subckt_name.
source_name == "Vaudio"
node_pos == "input"
node_neg == "0"
subckt_name == "AUDIO_SOURCE"

\* The points an inline PWL shows.
MaxInline == 1000

\* f"+ {t:.6e} {v:.6e}\n"
PwlLine(point) ==
    << Text("+ "), FormatE(point.time, 6), Text(" "), FormatE(point.voltage, 6) >>

\* The inline lines of both model types.
InlineLines(pwl) == [i \in 1..Min2(Len(pwl), MaxInline) |-> PwlLine(pwl[i])]

\* The quoted file name of PWL(FILE "audio_pwl.dat")
PwlFileName == "audio_pwl.dat"

\* generate_spice_code, model_type "subckt"
SubcktCode(pwl, file, v_min, v_max, format, t) ==
    << << Text("*"), Text(" WAV Audio Source Library") >>,
       << Text("*"), Text(" Source file: "), Text(file.name) >>,
       << Text("*"), Text(" Generated: "), Literal(t, 0) >>,
       << Text("*"), Text(" Duration: "), FormatF(pwl[Len(pwl)].time, 6),
          Text(" seconds") >>,
       << Text("*"), Text(" Sample points: "), Literal(Len(pwl), 0) >>,
       << Text("*"), Text(" Voltage range: "), FormatF(v_min, 3), Text("V to "),
          FormatF(v_max, 3), Text("V") >>,
       << Text("*") >>,
       << Text(".SUBCKT "), Text(subckt_name), Text(" out gnd") >>,
       << Text("*"), Text(" Audio voltage source from WAV file") >> >>
    \o (IF format = "external"
        THEN << << Text("V1 out gnd PWL(FILE \""), Text(PwlFileName), Text("\")") >> >>
        ELSE << << Text("V1 out gnd PWL(") >> >>
             \o InlineLines(pwl)
             \o << << Text("+ )") >> >>
             \o (IF Len(pwl) > MaxInline
                 THEN << << Text("*"), Text(" Note: Truncated to "),
                            Literal(MaxInline, 0), Text(" points for display") >> >>
                 ELSE <<>>))
    \o << << Text(".ENDS "), Text(subckt_name) >>,
          <<>>,
          << Text("*"), Text(" Usage in KiCAD:") >>,
          << Text("*"), Text(" 1. Add this file as a SPICE model library") >>,
          << Text("*"), Text(" 2. In your symbol, set:") >>,
          << Text("*"), Text("    Spice_Primitive: X") >>,
          << Text("*"), Text("    Spice_Model: "), Text(subckt_name) >>,
          << Text("*"), Text("    Spice_Lib_File: ${KIPRJMOD}/audio_source.lib") >>,
          << Text("*"), Text(" 3. Pin 1 (out) -> your circuit signal node") >>,
          << Text("*"), Text(" 4. Pin 2 (gnd) -> ground (0)") >>,
          << Text("*") >>,
          << Text("*"), Text(" IMPORTANT: The file audio_pwl.dat must be in the same") >>,
          << Text("*"), Text(" directory as this .lib file for ngspice to find it.") >>,
          << Text("*") >>,
          << Text("*"), Text(" Netlist instantiation example:") >>,
          << Text("*"), Text(" X1 signal_node 0 "), Text(subckt_name) >> >>

\* generate_spice_code, model_type other than "subckt"
DirectCode(pwl, file, format, t) ==
    << << Text("*"), Text(" Audio source from WAV file: "), Text(file.name) >>,
       << Text("*"), Text(" Generated: "), Literal(t, 0) >>,
       << Text("*"), Text(" Duration: "), FormatF(pwl[Len(pwl)].time, 4),
          Text(" seconds") >>,
       << Text("*"), Text(" Data points: "), Literal(Len(pwl), 0) >>,
       <<>> >>
    \o (IF format = "external"
        THEN << << Text(source_name), Text(" "), Text(node_pos), Text(" "),
                   Text(node_neg), Text(" PWL(FILE \""), Text(PwlFileName),
                   Text("\")") >>,
                <<>>,
                << Text("*"), Text(" Example usage in your circuit:") >>,
                << Text("*"), Text(".include audio_source.cir") >>,
                << Text("*"), Text("R1 input output 10k") >>,
                << Text("*"), Text("C1 output 0 1u") >>,
                << Text("*"), Text(".tran 1u "), Repr(pwl[Len(pwl)].time) >> >>
        ELSE << << Text(source_name), Text(" "), Text(node_pos), Text(" "),
                   Text(node_neg), Text(" PWL(") >> >>
             \o InlineLines(pwl)
             \o (IF Len(pwl) > MaxInline
                 THEN << << Text("*"), Text(" ... "), Literal(Len(pwl) - MaxInline, 0),
                            Text(" more points (truncated for display)") >> >>
                 ELSE <<>>)
             \o << << Text("+ )") >> >>)

\* generate_spice_code(pwl_data) at time t: pwl_data[-1] raises on an empty
\* list.
generate_spice_code(pwl, file, v_min, v_max, format, type, t) ==
    IF pwl = <<>> THEN [err |-> "IndexError", code |-> <<>>]
    ELSE [err |-> "none",
          code |-> IF type = "subckt"
                   THEN SubcktCode(pwl, file, v_min, v_max, format, t)
                   ELSE DirectCode(pwl, file, format, t)]

\* The lines written to audio_pwl.dat: f"{t:.6e} {v:.6e}\n" for each pair.
PwlFileLines(pwl) ==
    [i \in 1..Len(pwl) |-> << FormatE(pwl[i].time, 6), Text(" "),
                              FormatE(pwl[i].voltage, 6) >>]

\* self.preview_text.get(1.0, tk.END): the text and the newline the widget
\* keeps at the end.
PreviewGet(text) == text \o << <<>> >>

\* Nothing written by save_output.
NothingWritten == [files |-> {}, spice |-> <<>>, pwl |-> <<>>]

\* WavToSpiceConverter.__init__
ConvInit ==
    /\ wav_file = NoFile
    /\ max_points = 10000
    /\ voltage_min = RInt(-1)
    /\ voltage_max = RInt(1)
    /\ output_format = "external"
    /\ model_type = "subckt"
    /\ info_text = <<>>
    /\ preview_text = <<>>
    /\ pwl_data = <<>>
    /\ written = NothingWritten
    /\ cerr = "none"
    /\ cop = "init"
    /\ cops = 0

-----------------------------------------------------------------------------
(* The object and its handlers *)

\* self.params of __init__
InitParams ==
    [amp1 |-> RInt(1), decay1 |-> RInt(10), freq1 |-> RInt(100), phase1 |-> RInt(0),
     amp2 |-> R(1, 2), decay2 |-> RInt(50), freq2 |-> RInt(400), phase2 |-> RInt(0),
     scale |-> RInt(1)]

Keys == {"amp1", "decay1", "freq1", "phase1", "amp2", "decay2", "freq2", "phase2", "scale"}

\* Every slider given the lower end of the amplitude sliders.
SliderMinSigned(key) == RInt(-2)

\* make_slider(label, key, min_val, max_val, ...): the ends of each slider.
SliderMin(key) ==
    CASE key \in {"amp1", "amp2"} -> RInt(-2)
      [] key \in {"decay1", "decay2"} -> RInt(1)
      [] key \in {"freq1", "freq2"} -> RInt(10)
      [] key \in {"phase1", "phase2"} -> R(-314, 100)
      [] key = "scale" -> R(1, 10)

SliderMax(key) ==
    CASE key \in {"amp1", "amp2"} -> RInt(2)
      [] key = "decay1" -> RInt(200)
      [] key = "decay2" -> RInt(400)
      [] key = "freq1" -> RInt(1000)
      [] key = "freq2" -> RInt(2000)
      [] key \in {"phase1", "phase2"} -> R(314, 100)
      [] key = "scale" -> RInt(100)

\* The values a drag is tried with: both ends of the slider.
SliderValues(key) == {SliderMin(key), SliderMax(key)}

NotEvaluated == [status |-> "none", args |-> <<>>, terms |-> <<>>]

NoWav == [sample_rate |-> 0, dtype |-> "none", channels |-> 0, frames |-> <<>>]

Init ==
    /\ params = InitParams
    /\ sample_rate = 0
    /\ data = <<>>
    /\ has_data = FALSE
    /\ wav = NoWav
    /\ mag = <<>>
    /\ sorted_peak_indices = <<>>
    /\ p0 = <<>>
    /\ fit = "none"
    /\ err = "none"
    /\ op = "init"
    /\ nops = 0
    /\ line_fit = <<>>
    /\ content = <<>>
    /\ evaluated = NotEvaluated
    /\ GuiInit
    /\ ConvInit

-----------------------------------------------------------------------------
(* Inputs *)

\* L frames of silence, except the frames given by pulses (0-based position ->
\* frame).
Frames(L, channels, pulses) ==
    [i \in 1..L |-> IF (i - 1) \in DOMAIN pulses THEN pulses[i - 1]
                    ELSE [c \in 1..channels |-> 0]]

Wav(sr, dtype, channels, L, pulses) ==
    [sample_rate |-> sr, dtype |-> dtype, channels |-> channels,
     frames |-> Frames(L, channels, pulses)]

NoPulse == [i \in {} |-> <<>>]

\* The files the tool is run on.
Wavs ==
    { Wav(500, "int16", 1, 0, NoPulse),                      \* no frames
      Wav(500, "int16", 1, 1, 0 :> <<16384>>),               \* one frame
      Wav(5, "int16", 1, 3, 1 :> <<16384>>),                 \* int(0.15 * 5) = 0
      Wav(500, "int16", 1, 8, NoPulse),                      \* silence
      Wav(44100, "int16", 1, 6615, NoPulse),                 \* 150 ms of silence
      Wav(48000, "int16", 1, 120, 3 :> <<16384>>),
      Wav(500, "int16", 2, 100, 50 :> <<16384, -8192>>) }

\* A spectrum of n bins: zero except at the bins of `bins`, which take every
\* height of `heights`.
Spectra(n, bins, heights) ==
    {[i \in 1..n |-> IF (i - 1) \in DOMAIN h THEN h[i - 1] ELSE 0] :
        h \in [bins \cap (0..(n - 1)) -> heights]}

SpecBins == {0, 5, 30, 55}
SpecHeights == {0, 10}

\* The files and spectra the analysis alone is run on: every way the trimming
\* can clamp, equal and unequal maxima, peaks 49, 50 and 51 bins apart, flat
\* tops, heights at, above and below a tenth of the maximum.
FitWavs ==
    { Wav(500, "int16", 1, 1, 0 :> <<16384>>),
      Wav(500, "uint8", 1, 3, 1 :> <<255>>),
      Wav(500, "int16", 1, 120, 0 :> <<16384>>),
      Wav(500, "int16", 1, 120, 1 :> <<-16384>>),
      Wav(500, "int16", 1, 120, 10 :> <<16384>>),
      Wav(500, "int16", 1, 120, 60 :> <<16384>>),
      Wav(500, "int16", 1, 120, 119 :> <<16384>>),
      Wav(500, "int16", 1, 120, (10 :> <<8192>>) @@ (60 :> <<-8192>>)),
      Wav(500, "int16", 1, 120, (10 :> <<8192>>) @@ (60 :> <<-16384>>)),
      Wav(500, "int32", 2, 80, 40 :> <<16384, 8192>>),
      Wav(1000, "int16", 1, 240, 2 :> <<16384>>),
      Wav(48000, "int16", 1, 240, 100 :> <<-32768>>),
      Wav(48000, "float32", 1, 240, 0 :> <<1>>) }

FitBins == {0, 5, 54, 55, 105}
FitHeights == {0, 1, 10, 11}

\* What one call of perform_auto_fit on window x can compute before its try
\* statement and get from it: a spectrum, an order of its peaks, the largest
\* sample, an end of curve_fit.
NoAnalysis ==
    [spectrum |-> <<>>, sorted |-> <<>>, max_amp |-> RInt(0),
     res |-> [status |-> "none", popt |-> <<>>]]

Analyses(x, sr, bins, heights) ==
    IF Len(x) \div 2 = 0 THEN {NoAnalysis}
    ELSE LET spectra == IF IsZero(x) THEN Spectra(Len(x) \div 2, {}, {0})
                        ELSE Spectra(Len(x) \div 2, bins, heights)
             max_amp == MaxAmp(x)
             zero == IsZero(x)
         IN  UNION { UNION { UNION {
                 {[spectrum |-> m, sorted |-> s, max_amp |-> max_amp, res |-> r] :
                     r \in CurveFit(InitialGuess(max_amp, s, sr, Len(x)), zero)} :
                 s \in SortByHeight(m, pk)} :
                 pk \in FindPeaks(m)} :
                 m \in spectra}

\* The window load_wav cuts from each file (<<>> for a file without frames,
\* which never gets that far).
WindowOf ==
    [w \in Wavs \cup FitWavs |-> IF Len(w.frames) = 0 THEN <<>> ELSE Window(Decoded(w), w.sample_rate)]

AnalysesOf == [w \in Wavs |-> Analyses(WindowOf[w], w.sample_rate, SpecBins, SpecHeights)]

FitAnalysesOf ==
    [w \in FitWavs |-> Analyses(WindowOf[w], w.sample_rate, FitBins, FitHeights)]


\* perform_auto_fit on window x, with a the analysis the call makes.
perform_auto_fit(p, x, sr, a) ==
    IF Len(x) = 0
    THEN \* np.fft.fft of an empty array raises
         [params |-> p, mag |-> <<>>, sorted |-> <<>>, p0 |-> <<>>,
          fit |-> "none", err |-> "ValueError"]
    ELSE IF Len(x) \div 2 = 0
    THEN \* np.max(mag) of an empty array raises
         [params |-> p, mag |-> <<>>, sorted |-> <<>>, p0 |-> <<>>,
          fit |-> "none", err |-> "ValueError"]
    ELSE LET start == InitialGuess(a.max_amp, a.sorted, sr, Len(x))
             t == TryFit(p, start, a.res)
         IN  [params |-> t.params, mag |-> a.spectrum, sorted |-> a.sorted, p0 |-> start,
              fit |-> t.fit, err |-> t.err]

\* update_sliders_from_params: slider.set_val(self.params[key]) calls
\* on_slider_change(key, that value), which stores the value it was read from.
update_sliders_from_params(p) ==
    [amp1 |-> p.amp1, decay1 |-> p.decay1, freq1 |-> p.freq1, phase1 |-> p.phase1,
     amp2 |-> p.amp2, decay2 |-> p.decay2, freq2 |-> p.freq2, phase2 |-> p.phase2,
     scale |-> p.scale]

\* load_wav with file w chosen in the dialog.
load_wav(w, a) ==
    /\ nops < MaxOps
    /\ nops' = nops + 1
    /\ op' = "load_wav"
    /\ wav' = w
    /\ sample_rate' = w.sample_rate
    /\ IF Len(w.frames) = 0
       THEN \* np.argmax of an empty array raises, before self.data is assigned
            /\ err' = "ValueError"
            /\ fit' = "none"
            /\ mag' = <<>>
            /\ sorted_peak_indices' = <<>>
            /\ p0' = <<>>
            /\ UNCHANGED <<params, data, has_data, line_fit>>
       ELSE LET x == WindowOf[w]
                r == perform_auto_fit(params, x, w.sample_rate, a)
            IN  /\ data' = x
                /\ has_data' = TRUE
                /\ mag' = r.mag
                /\ sorted_peak_indices' = r.sorted
                /\ p0' = r.p0
                /\ fit' = r.fit
                /\ err' = r.err
                /\ params' = IF r.err = "none"
                             THEN update_sliders_from_params(r.params)
                             ELSE r.params
                /\ line_fit' = IF r.err = "none"
                               THEN update_plot(update_sliders_from_params(r.params))
                               ELSE line_fit
    /\ UNCHANGED <<content, evaluated>>
    /\ UNCHANGED <<guiVars, convVars>>

\* load_wav when the dialog is cancelled: if not file_path: return
load_wav_cancelled ==
    /\ nops < MaxOps
    /\ nops' = nops + 1
    /\ op' = "load_wav_cancelled"
    /\ err' = "none"
    /\ UNCHANGED <<params, sample_rate, data, has_data, wav, mag,
                   sorted_peak_indices, p0, fit, line_fit, content, evaluated>>
    /\ UNCHANGED <<guiVars, convVars>>

\* on_slider_change(key, val): self.params[key] = val, then update_plot, which
\* redraws when a window is loaded.
on_slider_change(key, val) ==
    /\ nops < MaxOps
    /\ nops' = nops + 1
    /\ op' = "on_slider_change"
    /\ params' = [params EXCEPT ![key] = val]
    /\ err' = "none"
    /\ line_fit' = IF has_data THEN update_plot(params') ELSE line_fit
    /\ UNCHANGED <<sample_rate, data, has_data, wav, mag, sorted_peak_indices, p0, fit,
                   content, evaluated>>
    /\ UNCHANGED <<guiVars, convVars>>


\* export_spice: nothing without a window, else the file is written.
export_spice ==
    /\ nops < MaxOps
    /\ nops' = nops + 1
    /\ op' = "export_spice"
    /\ err' = "none"
    /\ content' = IF has_data THEN Content(params) ELSE content
    /\ UNCHANGED <<params, sample_rate, data, has_data, wav, mag, sorted_peak_indices,
                   p0, fit, line_fit, evaluated>>
    /\ UNCHANGED <<guiVars, convVars>>

\* A direct call dual_damped_sine(t, *x) from a host of the class, as curve_fit
\* makes it: the function is computed, whatever x holds.
call_dual_damped_sine(x) ==
    /\ nops < MaxOps
    /\ nops' = nops + 1
    /\ evaluated' = [status |-> "returned", args |-> x,
                     terms |-> dual_damped_sine(x[1], x[2], x[3], x[4],
                                                x[5], x[6], x[7], x[8])]
    /\ UNCHANGED <<params, sample_rate, data, has_data, wav, mag, sorted_peak_indices,
                   p0, fit, err, op, line_fit, content>>
    /\ UNCHANGED <<guiVars, convVars>>

LoadWav == \E w \in Wavs : \E a \in AnalysesOf[w] : load_wav(w, a)

SliderChange == \E key \in Keys : \E val \in SliderValues(key) : on_slider_change(key, val)

Next ==
    \/ LoadWav
    \/ load_wav_cancelled
    \/ SliderChange

Spec == Init /\ [][Next]_vars

\* One load of a fresh tool, over the wider inputs.
FitNext ==
    /\ op = "init"
    /\ \E w \in FitWavs : \E a \in FitAnalysesOf[w] : load_wav(w, a)

FitSpec == Init /\ [][FitNext]_vars

\* The serializer and the model function, from a tool that has a window loaded
\* and its sliders set: one slider edit at most, then exports and direct calls.
ExportWav == Wav(500, "int16", 1, 120, 10 :> <<16384>>)

ExportAnalysis == CHOOSE a \in FitAnalysesOf[ExportWav] : a.res.status = "ok"

\* Slider settings and fitted values: amplitudes that round and that do not, a
\* decay on its lower bound, a negative phase, scales on both sides of 1.
ExportParams ==
    { [InitParams EXCEPT !.amp1 = a, !.decay1 = d, !.freq1 = f, !.phase1 = ph,
                         !.scale = sc] :
        a \in {RInt(0), RInt(1), R(3, 2), R(1, 3)},
        d \in {RInt(0), RInt(1), RInt(20)},
        f \in {RInt(10), RInt(1000)},
        ph \in {RInt(0), R(-157, 100)},
        sc \in {RInt(1), RInt(2), R(1, 10)} }

\* Arguments of a direct call: valid ones, a zero and a negative frequency, a
\* negative decay.
EvalArgs ==
    { << RInt(1), d, f, RInt(0), R(1, 2), RInt(50), RInt(400), RInt(0) >> :
        d \in {RInt(-5), RInt(20)}, f \in {RInt(-100), RInt(0), RInt(100)} }

ExportInit ==
    /\ params \in ExportParams
    /\ sample_rate = ExportWav.sample_rate
    /\ data = WindowOf[ExportWav]
    /\ has_data = TRUE
    /\ wav = ExportWav
    /\ mag = ExportAnalysis.spectrum
    /\ sorted_peak_indices = ExportAnalysis.sorted
    /\ p0 = InitialGuess(ExportAnalysis.max_amp, ExportAnalysis.sorted,
                         ExportWav.sample_rate, Len(WindowOf[ExportWav]))
    /\ fit = "success"
    /\ err = "none"
    /\ op = "on_slider_change"
    /\ nops = 0
    /\ line_fit = update_plot(params)
    /\ content = <<>>
    /\ evaluated = NotEvaluated
    /\ GuiInit
    /\ ConvInit

ExportNext ==
    \/ export_spice
    \/ nops = 0 /\ SliderChange
    \/ \E x \in EvalArgs : call_dual_damped_sine(x)

ExportSpec == ExportInit /\ [][ExportNext]_vars

-----------------------------------------------------------------------------
(* The handlers of PiezoGui *)

\* A handler of the multi-event tool runs.
GuiStep(name) ==
    /\ gops < MaxGuiOps
    /\ gops' = gops + 1
    /\ gop' = name
    /\ UNCHANGED <<fitterVars, convVars>>

\* The panels are replaced and update_plot runs.
Replot(controls) ==
    LET r == PiezoGui_update_plot(controls, now, spice_text)
    IN  /\ signal_controls' = controls
        /\ spice_text' = r.text
        /\ gui_err' = r.err
        /\ UNCHANGED <<saved, now>>

\* add_signal: a panel SignalControls(self, len(self.signal_controls)) is appended
add_signal ==
    /\ GuiStep("add_signal")
    /\ Replot(Append(signal_controls, SignalControls(Len(signal_controls))))

\* remove_signal(control), control the i-th panel
remove_signal(i) ==
    /\ GuiStep("remove_signal")
    /\ Replot(SubSeq(signal_controls, 1, i - 1)
                \o SubSeq(signal_controls, i + 1, Len(signal_controls)))

\* The user sets spin box `key` of panel i: valueChanged fires when the value
\* changes, on_value_changed puts the selector on "Custom" and replots.
on_value_changed(i, key, milli) ==
    /\ setValue(key, milli) # signal_controls[i][key]
    /\ GuiStep("on_value_changed")
    /\ Replot([signal_controls EXCEPT
                  ![i] = [@ EXCEPT ![key] = setValue(key, milli), !.preset = "Custom"]])

\* The four setValue calls of apply_preset on a panel.
PresetApplied(control, name) ==
    [control EXCEPT !.amplitude = setValue("amplitude", PRESETS(name).amplitude),
                    !.delay = setValue("delay", PRESETS(name).delay),
                    !.frequency = setValue("frequency", PRESETS(name).frequency),
                    !.damping = setValue("damping", PRESETS(name).damping)]

\* The user picks `name` in the selector of panel i: apply_preset(name).  Every
\* value that changes fires on_value_changed, which puts the selector back on
\* "Custom" and replots; a preset that changes nothing stays selected.
apply_preset(i, name) ==
    /\ name # signal_controls[i].preset
    /\ GuiStep("apply_preset")
    /\ IF name = "Custom"
       THEN /\ signal_controls' = [signal_controls EXCEPT ![i].preset = "Custom"]
            /\ gui_err' = "none"
            /\ UNCHANGED <<spice_text, saved, now>>
       ELSE LET applied == PresetApplied(signal_controls[i], name)
            IN  IF applied = signal_controls[i]
                THEN /\ signal_controls' = [signal_controls EXCEPT ![i].preset = name]
                     /\ gui_err' = "none"
                     /\ UNCHANGED <<spice_text, saved, now>>
                ELSE Replot([signal_controls EXCEPT
                               ![i] = [applied EXCEPT !.preset = "Custom"]])

\* visible_check of panel i is toggled: stateChanged calls update_plot
visible_changed(i) ==
    /\ GuiStep("visible_changed")
    /\ Replot([signal_controls EXCEPT ![i].visible = ~@])

\* show_individual_check is toggled: update_plot
show_individual_changed ==
    /\ GuiStep("show_individual_changed")
    /\ Replot(signal_controls)

\* save_spice_model with a file name chosen
save_spice_model ==
    /\ GuiStep("save_spice_model")
    /\ saved' = generate_spice_model(signal_controls, now)
    /\ gui_err' = "none"
    /\ UNCHANGED <<signal_controls, spice_text, now>>

\* save_spice_model with the dialog cancelled
save_spice_model_cancelled ==
    /\ GuiStep("save_spice_model_cancelled")
    /\ gui_err' = "none"
    /\ UNCHANGED <<signal_controls, spice_text, saved, now>>

\* A second passes.
clock_tick ==
    /\ now < MaxNow
    /\ now' = now + 1
    /\ UNCHANGED <<signal_controls, spice_text, saved, gui_err, gop, gops>>
    /\ UNCHANGED <<fitterVars, convVars>>

\* Values typed into a spin box, in thousandths: an amplitude with two
\* decimals, values below and above the ranges.
EditValues(key) ==
    CASE key = "amplitude" -> {250}
      [] key = "delay" -> {500}
      [] key = "frequency" -> {0}
      [] key = "damping" -> {0, 996}

Panels == 1..Len(signal_controls)

GuiNext ==
    \/ add_signal
    \/ \E i \in Panels : remove_signal(i)
    \/ \E i \in Panels : \E k \in 1..4 : \E v \in EditValues(ControlKeys[k]) :
          on_value_changed(i, ControlKeys[k], v)
    \/ \E i \in Panels : \E name \in PresetNames \cup {"Custom"} : apply_preset(i, name)
    \/ \E i \in Panels : visible_changed(i)
    \/ show_individual_changed
    \/ save_spice_model
    \/ save_spice_model_cancelled
    \/ clock_tick

GuiSpec == Init /\ [][GuiNext]_vars

-----------------------------------------------------------------------------
(* The handlers of WavToSpiceConverter *)

\* The files the user picks: 8-bit mono, 16-bit stereo, one with 32-bit
\* samples and one without frames.
ConvFiles ==
    { WavFile("mono8.wav", 1, 1, 4, << <<128>>, <<255>>, <<0>>, <<192>>, <<64>> >>),
      WavFile("stereo16.wav", 2, 2, 8, << <<0, 100>>, <<32767, -5>>, <<-32768, 7>> >>),
      WavFile("wide32.wav", 1, 4, 8, << <<0>> >>),
      WavFile("empty.wav", 1, 2, 8, <<>>) }

\* The values typed into the option entries.
MaxPointsValues == {0, 2, 3}
VoltageMinValues == {RInt(-1), RInt(0)}
VoltageMaxValues == {RInt(1), RInt(5)}

\* A handler of the converter runs.
ConvStep(name) ==
    /\ cops < MaxConvOps
    /\ cops' = cops + 1
    /\ cop' = name
    /\ UNCHANGED <<fitterVars, guiVars>>

\* browse_wav with `file` chosen: wav_file is set and load_wav_info writes the
\* info display with the max_points of that moment.
browse_wav(file) ==
    /\ ConvStep("browse_wav")
    /\ wav_file' = file
    /\ info_text' = Info(file, max_points)
    /\ cerr' = "none"
    /\ UNCHANGED <<max_points, voltage_min, voltage_max, output_format, model_type,
                   preview_text, pwl_data, written>>

\* browse_wav with the dialog cancelled
browse_wav_cancelled ==
    /\ ConvStep("browse_wav_cancelled")
    /\ cerr' = "none"
    /\ UNCHANGED <<wav_file, max_points, voltage_min, voltage_max, output_format,
                   model_type, info_text, preview_text, pwl_data, written>>

\* The user types m into "Max Data Points": the entry writes self.max_points,
\* nothing else is told.
set_max_points(m) ==
    /\ m # max_points
    /\ ConvStep("set_max_points")
    /\ max_points' = m
    /\ cerr' = "none"
    /\ UNCHANGED <<wav_file, voltage_min, voltage_max, output_format, model_type,
                   info_text, preview_text, pwl_data, written>>

\* The user types v into the first entry of "Voltage Range".
set_voltage_min(v) ==
    /\ v # voltage_min
    /\ ConvStep("set_voltage_min")
    /\ voltage_min' = v
    /\ cerr' = "none"
    /\ UNCHANGED <<wav_file, max_points, voltage_max, output_format, model_type,
                   info_text, preview_text, pwl_data, written>>

\* The user types v into the second entry of "Voltage Range".
set_voltage_max(v) ==
    /\ v # voltage_max
    /\ ConvStep("set_voltage_max")
    /\ voltage_max' = v
    /\ cerr' = "none"
    /\ UNCHANGED <<wav_file, max_points, voltage_min, output_format, model_type,
                   info_text, preview_text, pwl_data, written>>

\* A radio button of "PWL Format" is picked.
set_output_format(format) ==
    /\ format # output_format
    /\ ConvStep("set_output_format")
    /\ output_format' = format
    /\ cerr' = "none"
    /\ UNCHANGED <<wav_file, max_points, voltage_min, voltage_max, model_type,
                   info_text, preview_text, pwl_data, written>>

\* A radio button of "Model Type" is picked.
set_model_type(type) ==
    /\ type # model_type
    /\ ConvStep("set_model_type")
    /\ model_type' = type
    /\ cerr' = "none"
    /\ UNCHANGED <<wav_file, max_points, voltage_min, voltage_max, output_format,
                   info_text, preview_text, pwl_data, written>>

\* convert: a warning without a file; otherwise wav_to_pwl, generate_spice_code
\* and the preview replaced, or the exception of either shown and the preview
\* left as it was.
convert ==
    /\ ConvStep("convert")
    /\ IF wav_file = NoFile
       THEN /\ cerr' = "none"
            /\ UNCHANGED <<preview_text, pwl_data>>
       ELSE LET r == wav_to_pwl(wav_file, max_points, voltage_min, voltage_max)
                g == generate_spice_code(r.data, wav_file, voltage_min, voltage_max,
                                         output_format, model_type, now)
            IN  IF r.err # "none"
                THEN /\ cerr' = r.err
                     /\ UNCHANGED <<preview_text, pwl_data>>
                ELSE /\ pwl_data' = r.data
                     /\ cerr' = g.err
                     /\ preview_text' = IF g.err = "none" THEN g.code ELSE preview_text
    /\ UNCHANGED <<wav_file, max_points, voltage_min, voltage_max, output_format,
                   model_type, info_text, written>>

\* save_output with a file name chosen: a warning when the preview is empty;
\* otherwise the preview is written, and when output_format is "external" now,
\* wav_to_pwl runs again with the file and options of now and its pairs are
\* written to audio_pwl.dat beside it.
save_output ==
    /\ ConvStep("save_output")
    /\ IF preview_text = <<>>
       THEN /\ cerr' = "none"
            /\ UNCHANGED <<pwl_data, written>>
       ELSE IF output_format = "external"
            THEN LET r == wav_to_pwl(wav_file, max_points, voltage_min, voltage_max)
                 IN  IF r.err # "none"
                     THEN /\ written' = [files |-> {"spice"},
                                         spice |-> PreviewGet(preview_text),
                                         pwl |-> <<>>]
                          /\ cerr' = r.err
                          /\ UNCHANGED pwl_data
                     ELSE /\ written' = [files |-> {"spice", PwlFileName},
                                         spice |-> PreviewGet(preview_text),
                                         pwl |-> PwlFileLines(r.data)]
                          /\ cerr' = "none"
                          /\ pwl_data' = r.data
            ELSE /\ written' = [files |-> {"spice"},
                                spice |-> PreviewGet(preview_text),
                                pwl |-> <<>>]
                 /\ cerr' = "none"
                 /\ UNCHANGED pwl_data
    /\ UNCHANGED <<wav_file, max_points, voltage_min, voltage_max, output_format,
                   model_type, info_text, preview_text>>

\* save_output with the dialog cancelled
save_output_cancelled ==
    /\ preview_text # <<>>
    /\ ConvStep("save_output_cancelled")
    /\ cerr' = "none"
    /\ UNCHANGED <<wav_file, max_points, voltage_min, voltage_max, output_format,
                   model_type, info_text, preview_text, pwl_data, written>>

ConvNext ==
    \/ \E file \in ConvFiles : browse_wav(file)
    \/ browse_wav_cancelled
    \/ \E m \in MaxPointsValues : set_max_points(m)
    \/ \E v \in VoltageMinValues : set_voltage_min(v)
    \/ \E v \in VoltageMaxValues : set_voltage_max(v)
    \/ \E format \in {"external", "inline"} : set_output_format(format)
    \/ \E type \in {"subckt", "direct"} : set_model_type(type)
    \/ convert
    \/ save_output
    \/ save_output_cancelled
    \/ clock_tick

ConvSpec == Init /\ [][ConvNext]_vars

\* wav_to_pwl on its own: files of every supported width, with one to three
\* channels and 1..MaxFrames frames whose samples run through the ends of the
\* width, and options typed before the call.
MaxFrames == 5
MaxPwlPoints == 4

\* The stored values a width can hold at its ends and around 0.
Extremes(sampwidth) ==
    CASE sampwidth = 1 -> << 0, 255, 128, 127 >>
      [] sampwidth = 2 -> << -32768, 32767, 0, -1 >>
      [] sampwidth = 3 -> << -8388608, 8388607, 0, -1 >>

PwlFrames(sampwidth, channels, n, shift) ==
    [k \in 1..n |-> [c \in 1..channels |->
                        Extremes(sampwidth)[((k + c + shift) % 4) + 1]]]

PwlFiles ==
    { WavFile("pulse.wav", channels, sampwidth, 8000,
              PwlFrames(sampwidth, channels, n, shift)) :
        sampwidth \in {1, 2, 3}, channels \in 1..3, n \in 1..MaxFrames, shift \in 0..1 }

\* Voltage ranges with voltage_min <= voltage_max, one of them empty.
PwlRanges ==
    { << RInt(-1), RInt(1) >>, << RInt(0), RInt(5) >>, << R(-5, 2), R(-5, 2) >> }

PwlInit ==
    /\ params = InitParams
    /\ sample_rate = 0
    /\ data = <<>>
    /\ has_data = FALSE
    /\ wav = NoWav
    /\ mag = <<>>
    /\ sorted_peak_indices = <<>>
    /\ p0 = <<>>
    /\ fit = "none"
    /\ err = "none"
    /\ op = "init"
    /\ nops = 0
    /\ line_fit = <<>>
    /\ content = <<>>
    /\ evaluated = NotEvaluated
    /\ GuiInit
    /\ wav_file \in PwlFiles
    /\ max_points \in 1..MaxPwlPoints
    /\ \E range \in PwlRanges : voltage_min = range[1] /\ voltage_max = range[2]
    /\ output_format = "external"
    /\ model_type = "subckt"
    /\ info_text = Info(wav_file, 10000)
    /\ preview_text = <<>>
    /\ pwl_data = <<>>
    /\ written = NothingWritten
    /\ cerr = "none"
    /\ cop = "set_max_points"
    /\ cops = 0

\* self.wav_to_pwl(self.wav_file.get()), once
call_wav_to_pwl ==
    /\ cops = 0
    /\ cops' = 1
    /\ cop' = "wav_to_pwl"
    /\ LET r == wav_to_pwl(wav_file, max_points, voltage_min, voltage_max)
       IN  pwl_data' = r.data /\ cerr' = r.err
    /\ UNCHANGED <<wav_file, max_points, voltage_min, voltage_max, output_format,
                   model_type, info_text, preview_text, written>>
    /\ UNCHANGED <<fitterVars, guiVars>>

PwlNext == call_wav_to_pwl

PwlSpec == PwlInit /\ [][PwlNext]_vars

\* np.linspace(0, stop, num)[k]: num points from 0 to stop, both ends
\* included, so k * stop / (num - 1); the one point 0 when num is 1.
Linspace(stop, num, k) ==
    IF num = 1 THEN RInt(0) ELSE R(k * stop.n, stop.d * (num - 1))

\* self.time[k], for the window and sample rate of the last load:
\* np.linspace(0, len(self.data) / self.sample_rate, len(self.data))
time(k) == Linspace(R(Len(data), sample_rate), Len(data), k)

-----------------------------------------------------------------------------
(* Properties *)

LoadRan == op = "load_wav"
Peaks == {sorted_peak_indices[i] : i \in 1..Len(sorted_peak_indices)}
MagAt(k) == At(mag, k)
IsLargestAbs(m, x) ==
    /\ \E i \in 1..Len(x) : RAbs(x[i]) = m
    /\ \A i \in 1..Len(x) : RLe(RAbs(x[i]), m)

\* C1: when the bounded least-squares call fails, for whatever reason, load_wav
\* lets no error through and freq1, freq2 are the spectral guesses guess_f1,
\* guess_f2 of that call.
C1_FailedFitUsesGuesses ==
    (LoadRan /\ fit = "failed") =>
        /\ err = "none"
        /\ params.freq1 = GuessF1(sorted_peak_indices, sample_rate, Len(data))
        /\ params.freq2 = GuessF2(sorted_peak_indices, sample_rate, Len(data))

\* A fit that failed because its start was infeasible: the dominant peak lies
\* above 20 kHz.
C1_Witness ==
    /\ LoadRan /\ fit = "failed"
    /\ RLt(RInt(20000), params.freq1)

\* C2: after a failed fit the amplitudes, decays and phases are the seeds of the
\* initial guess: 0.7 and 0.3 times the window's largest sample, 20 and 50, 0.
C2_FailedFitHasSeeds ==
    (LoadRan /\ fit = "failed") =>
        \E m \in {RAbs(data[i]) : i \in 1..Len(data)} :
            /\ IsLargestAbs(m, data)
            /\ params.amp1 = RMul(m, R(7, 10))
            /\ params.amp2 = RMul(m, R(3, 10))
            /\ params.decay1 = RInt(20) /\ params.decay2 = RInt(50)
            /\ params.phase1 = RInt(0) /\ params.phase2 = RInt(0)

\* C3: a load, whether its fit succeeds or fails, leaves params['scale'] as it
\* was before.
C3_FitKeepsScale == [][LoadRan' => params'.scale = params.scale]_vars

\* A fit that succeeded with a scale the user had set.
C3_Witness == LoadRan /\ fit = "success" /\ params.scale # RInt(1)

\* C4: a window of fewer than 2 samples is analysed without an error, with no
\* peaks and the fallback frequencies.
C4_ShortWindowHandled ==
    (LoadRan /\ (Len(wav.frames) = 0 \/ Len(data) < 2)) =>
        /\ err = "none"
        /\ sorted_peak_indices = <<>>
        /\ params.freq1 = RInt(100) /\ params.freq2 = RInt(200)

\* C5, as claimed: an all-zero window (of at least 2 samples) is handled without
\* an error, takes the fallback path, and ends with 100 Hz and 200 Hz.
C5_ZeroWindowFallsBack ==
    (LoadRan /\ Len(wav.frames) > 0 /\ Len(data) >= 2 /\ IsZero(data)) =>
        /\ err = "none"
        /\ fit = "failed"
        /\ params.freq1 = RInt(100) /\ params.freq2 = RInt(200)

\* C5, amended: an all-zero window of at least 2 samples is handled without an
\* error and ends with 100 Hz and 200 Hz, by a fit that succeeds at its start.
C5_ZeroWindowDefaults ==
    (LoadRan /\ Len(wav.frames) > 0 /\ Len(data) >= 2 /\ IsZero(data)) =>
        /\ err = "none"
        /\ fit = "success"
        /\ params.freq1 = RInt(100) /\ params.freq2 = RInt(200)

\* 150 ms of silence at 44100 Hz.
C5_Witness ==
    /\ LoadRan /\ sample_rate = 44100 /\ Len(data) = 6615 /\ IsZero(data)
    /\ fit = "success" /\ nops = 2

\* C6: the start handed to the optimizer is [0.7 M, 20, f1, 0, 0.3 M, 50, f2, 0],
\* M the window's largest absolute sample, f1 the frequency of a highest peak
\* (100 without peaks), f2 that of a highest other peak (2 f1 with fewer than
\* two peaks).
C6_InitialGuess ==
    (LoadRan /\ p0 # <<>>) =>
        /\ \E m \in {RAbs(data[i]) : i \in 1..Len(data)} :
              /\ IsLargestAbs(m, data)
              /\ p0[1] = R(7 * m.n, 10 * m.d)
              /\ p0[5] = R(3 * m.n, 10 * m.d)
        /\ p0[2] = RInt(20) /\ p0[6] = RInt(50)
        /\ p0[4] = RInt(0) /\ p0[8] = RInt(0)
        /\ IF Peaks = {} THEN p0[3] = RInt(100)
           ELSE \E k \in Peaks :
                   /\ \A j \in Peaks : MagAt(j) <= MagAt(k)
                   /\ p0[3] = R(k * sample_rate, Len(data))
                   /\ IF Peaks = {k} THEN p0[7] = R(2 * k * sample_rate, Len(data))
                      ELSE \E k2 \in Peaks \ {k} :
                              /\ \A j \in Peaks \ {k} : MagAt(j) <= MagAt(k2)
                              /\ p0[7] = R(k2 * sample_rate, Len(data))
        /\ Cardinality(Peaks) < 2 => p0[7] = RMul(p0[3], RInt(2))

\* A start made from three peaks of two different heights.
C6_Witness ==
    /\ LoadRan /\ p0 # <<>>
    /\ Cardinality(Peaks) = 3
    /\ \E j, k \in Peaks : MagAt(j) < MagAt(k)

\* C7: after a fit that converged, both decays lie in [0, 1000], both
\* frequencies in [1, 20000], both phases in [-pi, pi].
C7_FittedWithinBounds ==
    (LoadRan /\ fit = "success") =>
        /\ RLe(RInt(0), params.decay1) /\ RLe(params.decay1, RInt(1000))
        /\ RLe(RInt(0), params.decay2) /\ RLe(params.decay2, RInt(1000))
        /\ RLe(RInt(1), params.freq1) /\ RLe(params.freq1, RInt(20000))
        /\ RLe(RInt(1), params.freq2) /\ RLe(params.freq2, RInt(20000))
        /\ RLe(RNeg(Pi), params.phase1) /\ RLe(params.phase1, Pi)
        /\ RLe(RNeg(Pi), params.phase2) /\ RLe(params.phase2, Pi)

\* A fit that converged on the bounds, with a result other than its start.
C7_Witness ==
    /\ LoadRan /\ fit = "success"
    /\ params.freq2 = RInt(20000) /\ params.decay1 = RInt(0)
    /\ params.freq2 # p0[7]

\* C8: the sorted peaks come in non-increasing magnitude.
C8_PeaksSortedByMagnitude ==
    \A i \in 1..(Len(sorted_peak_indices) - 1) :
        MagAt(sorted_peak_indices[i]) >= MagAt(sorted_peak_indices[i + 1])

\* Three peaks, the last lower than the first.
C8_Witness ==
    /\ Len(sorted_peak_indices) = 3
    /\ MagAt(sorted_peak_indices[3]) < MagAt(sorted_peak_indices[1])

IsLocalMax(k) ==
    /\ 0 < k /\ k < Len(mag) - 1
    /\ MagAt(k - 1) <= MagAt(k) /\ MagAt(k + 1) <= MagAt(k)

\* C9, as claimed: every reported peak is a local maximum of mag whose magnitude
\* exceeds a tenth of the largest magnitude, and two reported peaks are at least
\* 50 bins apart.
C9_PeaksExceedTenth ==
    /\ \A k \in Peaks : IsLocalMax(k) /\ 10 * MagAt(k) > SeqMax(mag)
    /\ \A j, k \in Peaks : j # k => Abs(j - k) >= 50

\* C9, amended: every reported peak is a local maximum of mag whose magnitude is
\* at least a tenth of the largest magnitude, and two reported peaks are at
\* least 50 bins apart.
C9_PeaksAtLeastTenth ==
    /\ \A k \in Peaks : IsLocalMax(k) /\ 10 * MagAt(k) >= SeqMax(mag)
    /\ \A j, k \in Peaks : j # k => Abs(j - k) >= 50

\* Two peaks exactly 50 bins apart, the largest magnitude and exactly a tenth
\* of it.
C9_Witness ==
    \E j, k \in Peaks :
        k - j = 50 /\ 10 * MagAt(j) = SeqMax(mag) /\ MagAt(k) = SeqMax(mag)

C11_WindowNormalised ==
    (LoadRan /\ Len(wav.frames) > 0 /\ wav.dtype \in {"uint8", "int16", "int32"}) =>
        /\ \A i \in 1..Len(data) : RLe(RAbs(data[i]), RInt(1))
        /\ \E s \in 0..(Len(wav.frames) - Len(data)) :
              \A i \in 1..Len(data) :
                  RMul(data[i], RInt(wav.channels)) =
                      RSum([c \in 1..wav.channels |->
                               Normalize(wav.dtype, wav.frames[s + i][c])])

-----------------------------------------------------------------------------
(* The exported text, read back *)

Exported == op = "export_spice" /\ content # <<>>

RECURSIVE RStrip(_)
\* A line without its trailing blanks.
RStrip(line) ==
    IF line # <<>> /\ line[Len(line)] = Text(" ")
    THEN RStrip(SubSeq(line, 1, Len(line) - 1))
    ELSE line

IsSignificant(line) == RStrip(line) # <<>> /\ line[1] # Text("*")

\* The lines that are neither blank nor comments, without trailing blanks.
Significant(text) ==
    LET kept == SelectSeq(text, IsSignificant)
    IN  [i \in 1..Len(kept) |-> RStrip(kept[i])]

\* The term a line "+ A * exp(-D * time) * sin(C * F * time + P)" denotes.
ParseComponent(line) ==
    Term(Value(line[2]), Value(line[4]), [micro |-> line[6].num, pico |-> 0],
         Value(line[8]), Value(line[10]))

\* The function the VALUE={...} expression of a text denotes.
ExpressionOf(text) ==
    LET sig == Significant(text)
    IN  << ParseComponent(sig[3]), ParseComponent(sig[5]) >>

\* Two sums of terms are the same function when they agree term by term, a term
\* of amplitude 0 being the zero function whatever its other numbers.
ZeroTerm == Term(RInt(0), RInt(0), NpTwoPi, RInt(0), RInt(0))
Canon(f) == [i \in 1..Len(f) |-> IF f[i].amp.n = 0 THEN ZeroTerm ELSE f[i]]
SameFunction(f, g) == Canon(f) = Canon(g)

ParamsFunction ==
    dual_damped_sine(params.amp1, params.decay1, params.freq1, params.phase1,
                     params.amp2, params.decay2, params.freq2, params.phase2)

ScaledBy(sc, f) == [i \in 1..Len(f) |-> [f[i] EXCEPT !.amp = RMul(@, sc)]]

\* A term as the text renders it: every number cut to 5 decimals, 6.283185 for
\* 2 pi.
Rendered(term) ==
    Term(Value(FormatF(term.amp, 5)), Value(FormatF(term.decay, 5)),
         [micro |-> SpiceTwoPiMicro, pico |-> 0],
         Value(FormatF(term.freq, 5)), Value(FormatF(term.phase, 5)))

WholeCycles(term) == (term.freq.n * Len(data)) \div (term.freq.d * sample_rate)

\* At t = k / freq an undamped term of phase 0 is amp * sin(2 pi k) = 0, while
\* the text's amp * sin(6.283185 k) is amp * sin(-k * slip), slip the 307179
\* millionths of a millionth that 6.283185 lacks; for k * slip < 1 that is at
\* least amp * k * slip / 2 in size.  The floor of the deviation, in
\* millionths of a millionth.
DeviationFloorPico(term, k) ==
    (Abs(term.amp.n) * k * NpTwoPiPico) \div (2 * term.amp.d)

\* C13: at every time of the window the emitted expression, evaluated, is
\* within 1e-6 of the model function; checked at the whole cycles of the
\* undamped terms of phase 0 and amplitude at most 2 that the text renders
\* without rounding.
C13_RoundTripWithinTolerance ==
    Exported =>
        \A i \in 1..2 :
            LET term == ScaledBy(params.scale, ParamsFunction)[i]
            IN  ( /\ term.decay = RInt(0) /\ term.phase = RInt(0)
                  /\ RLe(RAbs(term.amp), RInt(2))
                  /\ Value(FormatF(term.amp, 5)) = term.amp
                  /\ Value(FormatF(term.freq, 5)) = term.freq ) =>
                    \A k \in 0..WholeCycles(term) :
                        DeviationFloorPico(term, k) <= Pow10(6)

\* The pieces of a text, each by its line and position.
Pieces(text) == UNION {{<<l, j>> : j \in 1..Len(text[l])} : l \in 1..Len(text)}

\* C14: the first literal of each component is amplitude * global_scale with 5
\* decimals, and the scale is nowhere else in the text: every other literal is
\* a decay, a frequency, a phase or 6.283185, and a component is the product
\* of three factors.
C14_ScaleInAmplitudeOnly ==
    Exported =>
        LET sig == Significant(content)
            others == { FormatF(params[key], k) :
                          key \in {"decay1", "freq1", "phase1", "decay2", "freq2", "phase2"},
                          k \in {1, 5} } \cup {Literal(SpiceTwoPiMicro, 6)}
        IN  /\ sig[3][2] = FormatF(RMul(params.amp1, params.scale), 5)
            /\ sig[5][2] = FormatF(RMul(params.amp2, params.scale), 5)
            /\ Len(sig[3]) = 11 /\ Len(sig[5]) = 11
            /\ \A lj \in Pieces(sig) :
                   (IsLiteral(sig[lj[1]][lj[2]]) /\ lj \notin {<<3, 2>>, <<5, 2>>}) =>
                       sig[lj[1]][lj[2]] \in others
            /\ \A lj \in Pieces(content) :
                   (IsLiteral(content[lj[1]][lj[2]]) /\ content[lj[1]][1] = Text("*")) =>
                       content[lj[1]][lj[2]] \in others

\* Scale 2.0 and amplitude 1.5 give 3.00000, and no literal of the text is the
\* scale.
C14_Witness ==
    /\ Exported /\ params.scale = RInt(2) /\ params.amp1 = R(3, 2)
    /\ Significant(content)[3][2] = Literal(300000, 5)
    /\ \A lj \in Pieces(content) :
          content[lj[1]][lj[2]] \notin {FormatF(params.scale, 5), FormatF(params.scale, 1)}

IsComponentLine(line) ==
    /\ Len(line) = 11
    /\ line[1] = Text("+ ")
    /\ IsLiteral(line[2]) /\ line[2].digits = 5
    /\ line[3] = Text(" * exp(-")
    /\ IsLiteral(line[4]) /\ line[4].digits = 5
    /\ line[5] = Text(" * time) * sin(")
    /\ line[6] = Literal(6283185, 6)
    /\ line[7] = Text(" * ")
    /\ IsLiteral(line[8]) /\ line[8].digits = 5
    /\ line[9] = Text(" * time + ")
    /\ IsLiteral(line[10]) /\ line[10].digits = 5
    /\ line[11] = Text(")")

\* C16: without blank lines, comment lines and trailing blanks the text is
\* '.SUBCKT <name> out gnd', 'E1 out gnd VALUE={', '+ <component 1>', '+ +',
\* '+ <component 2>', '+ }', '.ENDS <name>', one name in both places, each
\* component of the form 'A * exp(-D * time) * sin(6.283185 * F * time + P)'.
C16_TextGrammar ==
    Exported =>
        LET sig == Significant(content)
        IN  /\ Len(sig) = 7
            /\ Len(sig[1]) = 3
            /\ sig[1][1] = Text(".SUBCKT ") /\ sig[1][3] = Text(" out gnd")
            /\ sig[2] = << Text("E1 out gnd VALUE={") >>
            /\ IsComponentLine(sig[3])
            /\ sig[4] = << Text("+ +") >>
            /\ IsComponentLine(sig[5])
            /\ sig[6] = << Text("+ }") >>
            /\ sig[7] = << Text(".ENDS "), sig[1][2] >>

\* A text with a negative phase, that had blank lines, comments and trailing
\* blanks to leave out.
C16_Witness ==
    /\ Exported
    /\ Len(content) = 16 /\ Len(Significant(content)) = 7
    /\ Len(content[10]) = 12
    /\ Significant(content)[3][10] = Literal(-157000, 5)

\* C18: a call of the model function with a frequency <= 0 or a decay < 0 is
\* rejected, no function is computed from it.
C18_InvalidRejected ==
    ( /\ evaluated.status # "none"
      /\ \E c \in {0, 4} :
            \/ RLe(evaluated.args[c + 3], RInt(0))
            \/ RLt(evaluated.args[c + 2], RInt(0)) ) =>
        evaluated.status = "rejected" /\ evaluated.terms = <<>>

-----------------------------------------------------------------------------
(* The multi-event tool *)

C17_FiveToEightDecimals ==
    \A text \in {content, spice_text, saved} :
        \A lj \in Pieces(text) :
            (IsSignificant(text[lj[1]]) /\ IsLiteral(text[lj[1]][lj[2]])) =>
                text[lj[1]][lj[2]].digits \in 5..8

\* The lines of a text that hold one event each.
IsEventLine(line) == Len(line) >= 15 /\ line[1] = Text("+ ")
EventLines(text) == SelectSeq(text, IsEventLine)

\* The function an event line denotes: gated by (time - delay) > 0, amplitude
\* and delay as written, the three rates those written for a frequency and a
\* damping.
ParseEvent(line) ==
    [amplitude |-> Value(line[2]), delay |-> Value(line[6]),
     frequency |-> line[4].frequency, damping |-> line[4].damping, gate |-> ">"]

\* An event at t = delay: 0 behind a strict gate, amplitude * exp(0) * sin(0)
\* behind t >= delay.
AtDelay(f) == IF f.gate = ">" THEN RInt(0) ELSE RMul(f.amplitude, RInt(0))

\* C19: for every visible signal the preview and the exported expression are
\* the same function of t: 0 up to and at the delay, and after it the damped
\* sine of the signal's amplitude, delay, frequency and damping.
C19_PreviewMatchesExport ==
    LET vis == VisibleControls(signal_controls)
        lines == EventLines(spice_text)
    IN  (gui_err = "none" /\ Len(lines) = Len(vis)) =>
            \A i \in 1..Len(vis) :
                LET f == calculate_signal(vis[i])
                    g == ParseEvent(lines[i])
                IN  /\ AtDelay(f) = AtDelay(g)
                    /\ f.amplitude = g.amplitude
                    /\ f.delay = g.delay
                    /\ f.frequency = g.frequency /\ f.damping = g.damping

\* C20: every panel's damping ratio lies strictly between 0 and 1.
C20_DampingUnderdamped ==
    \A i \in Panels :
        0 < signal_controls[i].damping /\ signal_controls[i].damping < 100

\* A damping of 1.00 was typed and one of 0.5 came from a preset.
C20_Witness ==
    /\ \E i \in Panels : signal_controls[i].damping = 99
    /\ \E i \in Panels : signal_controls[i].damping = 50

-----------------------------------------------------------------------------
(* The parameters an export would write *)

\* C21: in every state reached by loads (the fit converged or fell back to the
\* guesses) and slider edits, both decay rates are >= 0 and both frequencies
\* are > 0, so exp(-D ...) is written with a single minus and sin(...) with a
\* positive frequency.
C21_DecayAndFrequencySigns ==
    /\ RLe(RInt(0), params.decay1) /\ RLe(RInt(0), params.decay2)
    /\ RLt(RInt(0), params.freq1) /\ RLt(RInt(0), params.freq2)

\* A load whose fit fell back to the guesses, then the decay slider of
\* component 1 dragged to its lower end.
C21_Witness ==
    /\ op = "on_slider_change" /\ fit = "failed"
    /\ params.decay1 = SliderMin("decay1")
    /\ params.freq1 = p0[3] /\ params.freq2 = p0[7]

-----------------------------------------------------------------------------
(* The terms of the multi-event expression *)

\* The texts that generate_spice_model has just made of the panels as they
\* are: the pane after a handler whose update_plot came to its end, the file
\* after a save.
FreshTexts ==
    (IF gui_err = "none" /\ gop \in {"add_signal", "remove_signal", "on_value_changed",
                                      "visible_changed", "show_individual_changed"}
     THEN {spice_text} ELSE {})
    \cup (IF gop = "save_spice_model" THEN {saved} ELSE {})

\* The lines of a text between 'E1 out gnd VALUE={' and '+ }'.
TermLines(text) ==
    LET open == CHOOSE l \in 1..Len(text) : text[l] = << Text("E1 out gnd VALUE={") >>
        close == CHOOSE l \in (open + 1)..Len(text) : text[l] = << Text("+ }") >>
    IN  SubSeq(text, open + 1, close - 1)

\* C22: generate_spice_model writes one term for each visible panel, in panel
\* order, none for a hidden one; each term but the last is followed by one '+'
\* and there is no other '+' operator between 'E1 out gnd VALUE={' and '+ }'.
C22_OneTermPerVisibleSignal ==
    \A text \in FreshTexts :
        LET vis == SelectSeq(signal_controls, IsVisible)
            terms == TermLines(text)
        IN  /\ Len(terms) = Len(vis)
            /\ \A i \in 1..Len(terms) :
                  /\ terms[i][1] = Text("+ ")
                  /\ terms[i][2] = FormatF(R(vis[i].amplitude, 100), 1)
                  /\ Value(terms[i][6]) = R(vis[i].delay, 100000)
                  /\ terms[i][4].frequency = vis[i].frequency
                  /\ terms[i][4].damping = vis[i].damping
                  /\ \A j \in 2..15 : terms[i][j] # Text("+")
                  /\ Len(terms[i]) = IF i < Len(terms) THEN 16 ELSE 15
                  /\ i < Len(terms) => terms[i][16] = Text("+")

\* Three panels, the second hidden: the pane holds the terms of the first and
\* the third, joined by one '+'.
C22_Witness ==
    /\ gop = "visible_changed" /\ gui_err = "none"
    /\ Len(signal_controls) = 3
    /\ signal_controls[1].visible /\ ~signal_controls[2].visible
    /\ signal_controls[3].visible
    /\ Len(TermLines(spice_text)) = 2

-----------------------------------------------------------------------------
(* The converter *)

\* wav_to_pwl has returned.
PwlReturned == cop = "wav_to_pwl" /\ cerr = "none"

\* C23: for a file of n >= 1 frames and a positive max_points m, wav_to_pwl
\* returns at most m pairs, min(n, m) of them as the info line estimates.
C23_PointsWithinMax ==
    (PwlReturned /\ Len(wav_file.frames) >= 1 /\ max_points >= 1) =>
        /\ Len(pwl_data) <= max_points
        /\ Len(pwl_data) = EstimatedPoints(wav_file, max_points)

\* C24: for 8-, 16- and 24-bit samples and voltage_min <= voltage_max, every
\* voltage returned by wav_to_pwl lies in [voltage_min, voltage_max], the first
\* time is 0 and the times increase strictly.
C24_VoltagesAndTimes ==
    (PwlReturned /\ RLe(voltage_min, voltage_max)) =>
        /\ \A k \in 1..Len(pwl_data) :
              /\ RLe(voltage_min, pwl_data[k].voltage)
              /\ RLe(pwl_data[k].voltage, voltage_max)
        /\ pwl_data # <<>> => pwl_data[1].time = RInt(0)
        /\ \A k \in 1..(Len(pwl_data) - 1) :
              RLt(pwl_data[k].time, pwl_data[k + 1].time)

\* A 24-bit file whose first channel holds the least and the greatest sample:
\* the least gives voltage_min, the greatest the voltage just below
\* voltage_max.
C24_Witness ==
    /\ PwlReturned /\ wav_file.sample_width = 3 /\ wav_file.channels = 2
    /\ voltage_min = RInt(0) /\ voltage_max = RInt(5)
    /\ Len(pwl_data) >= 3
    /\ \E k \in 1..Len(pwl_data) : pwl_data[k].voltage = voltage_min
    /\ \E k \in 1..Len(pwl_data) :
          pwl_data[k].voltage = RMul(R(16777215, 16777216), RInt(5))

\* A text has a source line that names audio_pwl.dat (the comment lines that
\* mention it do not count).
ReferencesPwlFile(text) ==
    \E l \in 1..Len(text) :
        /\ text[l] # <<>> /\ text[l][1] # Text("*")
        /\ \E j \in 1..Len(text[l]) : text[l][j] = Text(PwlFileName)

\* The header line of a text that begins with `label`.
HeaderLine(text, label) ==
    text[CHOOSE l \in 1..Len(text) : Len(text[l]) >= 3 /\ text[l][2] = Text(label)]

\* The number of points a text says it was generated from.
HeaderPoints(text) ==
    IF \E l \in 1..Len(text) : Len(text[l]) >= 3 /\ text[l][2] = Text(" Sample points: ")
    THEN HeaderLine(text, " Sample points: ")[3].num
    ELSE HeaderLine(text, " Data points: ")[3].num

\* The number a mantissa-and-exponent literal is read as.
SciValue(piece) ==
    IF piece.exp >= 0 THEN R(piece.num * Pow10(piece.exp), Pow10(piece.digits))
    ELSE R(piece.num, Pow10(piece.digits - piece.exp))

\* The file a text says it was generated from.
HeaderSource(text) ==
    IF text[1][2] = Text(" WAV Audio Source Library") THEN text[2][3] ELSE text[1][3]

\* C25: after option changes, conversions and saves of one file, whenever the
\* SPICE file written by save_output names audio_pwl.dat, the same save has
\* written audio_pwl.dat, with the data the text was generated from: as many
\* points as the text's header counts, the last of them at the duration the
\* header gives.
C25_ExternalFileWritten ==
    ( /\ "spice" \in written.files
      /\ HeaderSource(written.spice) = Text(wav_file.name)
      /\ ReferencesPwlFile(written.spice) ) =>
        /\ PwlFileName \in written.files
        /\ Len(written.pwl) = HeaderPoints(written.spice)
        /\ LET duration == HeaderLine(written.spice, " Duration: ")[3]
               last == written.pwl[Len(written.pwl)][1]
           IN  FormatF(SciValue(last), duration.digits) = duration

-----------------------------------------------------------------------------
(* Panels added, removed and hidden *)

\* C26: after Add Signal, Remove or a visibility toggle, update_plot has ended
\* without raising and the text pane shows the model generated from the panels
\* visible now.
C26_UpdatePlotCompletes ==
    gop \in {"add_signal", "remove_signal", "visible_changed"} =>
        /\ gui_err = "none"
        /\ \E t \in 0..now : spice_text = generate_spice_model(signal_controls, t)

-----------------------------------------------------------------------------
(* The start of the refinement and the time axis *)

\* C27: the initial guess of every load lies within the optimizer's bounds
\* (both frequency guesses in [1, 20000]), so no fit fails for an infeasible
\* start, and the frequencies a failed fit falls back to are within the bounds.
C27_GuessWithinBounds ==
    (LoadRan /\ p0 # <<>>) =>
        /\ InBounds(p0)
        /\ fit = "failed" =>
              /\ Between(params.freq1, RInt(1), RInt(20000))
              /\ Between(params.freq2, RInt(1), RInt(20000))

\* C28: sample k of the window has the time k / sample_rate, so that two
\* consecutive samples are 1 / sample_rate apart, the spacing the frequency
\* axis k * sample_rate / N assumes.
C28_TimeAxisSpacing ==
    (has_data /\ Len(data) >= 1) =>
        \A k \in {0, 1, Len(data) - 1} \cap (0..(Len(data) - 1)) :
            time(k) = R(k, sample_rate)

-----------------------------------------------------------------------------
(* Presets *)

\* C29: when a preset other than "Custom" is picked for a panel, then after
\* all the callbacks it sets off, the panel's amplitude, delay, frequency and
\* damping are the preset's and the selector still shows the preset's name.
C29_PresetStaysSelected ==
    [][ \A i \in Panels : \A name \in PresetNames :
          apply_preset(i, name) =>
              /\ \A k \in 1..4 :
                    10 * signal_controls'[i][ControlKeys[k]] = PRESETS(name)[ControlKeys[k]]
              /\ signal_controls'[i].preset = name ]_vars

====
